---- MODULE Spec2Model ----
(***************************************************************************)
(* Carbon footprint tracker backend: emissions calculator                  *)
(* (carbon_engine.py), scoring and badges (gamification.py), prompt        *)
(* builder (recommendation_engine.py) and the HTTP handlers (main.py,      *)
(* demo_api.py).                                                           *)
(*                                                                         *)
(* Numbers.  Python floats are modelled as exact decimal fixed-point      *)
(* integers:                                                               *)
(*   - a quantity (km, kg of food, kWh) is an integer number of           *)
(*     thousandths (QScale units per km / kg / kWh);                      *)
(*   - an emission factor is an integer number of hundredths              *)
(*     (FScale units per kg CO2e);                                        *)
(*   - an emission (kg CO2e) is their product, an integer number of       *)
(*     1/100000 kg (Scale = QScale * FScale units per kg).                *)
(* round(x, n) keeps the unit and returns a multiple of 10^(5-n).  At an  *)
(* exact decimal tie Python rounds the binary value of the float, which   *)
(* is the tie itself (then: to even) or lies just above or just below it; *)
(* the variable fpTie fixes which of the three the run exhibits.          *)
(*                                                                         *)
(* Strings that the code transforms (lower(), capitalize()) are tuples    *)
(* of one-character strings.                                               *)
(***************************************************************************)
EXTENDS Integers, Sequences, FiniteSets, TLC

VARIABLES
    pc,                        \* "idle": no request in progress; "returned": a call has returned
    op,                        \* name of the operation that returned last
    req,                       \* its arguments
    resp,                      \* [value |-> what it returned, refs |-> heap addresses of the returned dicts]
    DEFAULT_EMISSION_FACTORS,  \* carbon_engine module global
    STREAK_BONUS_MILESTONES,   \* gamification module global
    LEVELS,                    \* gamification module global
    BADGE_DEFINITIONS,         \* gamification module global: list of references to dicts
    heap,                      \* address -> dict (the mutable dict objects)
    first,                     \* an earlier call kept for comparison: [op, req, value], or NoCall
    tampered,                  \* a caller has rewritten a dict it was handed
    fpTie                      \* direction round() takes at an exact decimal tie

vars == <<pc, op, req, resp, DEFAULT_EMISSION_FACTORS, STREAK_BONUS_MILESTONES,
          LEVELS, BADGE_DEFINITIONS, heap, first, tampered, fpTie>>

tables == <<DEFAULT_EMISSION_FACTORS, STREAK_BONUS_MILESTONES, LEVELS, BADGE_DEFINITIONS>>

----------------------------------------------------------------------------
(* Units *)

QScale == 1000
FScale == 100
Scale == QScale * FScale

Kg(n) == n * Scale
Kwh(n) == n * QScale

----------------------------------------------------------------------------
(* Strings *)

UpperOf ==
    [c \in {"a","b","c","d","e","f","g","h","i","j","k","l","m",
            "n","o","p","q","r","s","t","u","v","w","x","y","z"} |->
        CASE c = "a" -> "A" [] c = "b" -> "B" [] c = "c" -> "C" [] c = "d" -> "D"
          [] c = "e" -> "E" [] c = "f" -> "F" [] c = "g" -> "G" [] c = "h" -> "H"
          [] c = "i" -> "I" [] c = "j" -> "J" [] c = "k" -> "K" [] c = "l" -> "L"
          [] c = "m" -> "M" [] c = "n" -> "N" [] c = "o" -> "O" [] c = "p" -> "P"
          [] c = "q" -> "Q" [] c = "r" -> "R" [] c = "s" -> "S" [] c = "t" -> "T"
          [] c = "u" -> "U" [] c = "v" -> "V" [] c = "w" -> "W" [] c = "x" -> "X"
          [] c = "y" -> "Y" [] c = "z" -> "Z"]

LowerChar(c) ==
    IF \E l \in DOMAIN UpperOf : UpperOf[l] = c
    THEN CHOOSE l \in DOMAIN UpperOf : UpperOf[l] = c
    ELSE c

UpperChar(c) == IF c \in DOMAIN UpperOf THEN UpperOf[c] ELSE c

\* str.lower()
Lower(s) == [i \in 1..Len(s) |-> LowerChar(s[i])]

\* str.capitalize(): first character upper-cased, the rest lower-cased
Capitalize(s) == [i \in 1..Len(s) |-> IF i = 1 THEN UpperChar(s[i]) ELSE LowerChar(s[i])]

\* dict.get(key, default)
Get(d, k, default) == IF k \in DOMAIN d THEN d[k] ELSE default

car == <<"c","a","r">>
bus == <<"b","u","s">>
train == <<"t","r","a","i","n">>
flight == <<"f","l","i","g","h","t">>
beef == <<"b","e","e","f">>
chicken == <<"c","h","i","c","k","e","n">>
dairy == <<"d","a","i","r","y">>
vegetables == <<"v","e","g","e","t","a","b","l","e","s">>
rice == <<"r","i","c","e">>
electricity == <<"e","l","e","c","t","r","i","c","i","t","y">>
gas == <<"g","a","s">>

transport == <<"t","r","a","n","s","p","o","r","t">>
food == <<"f","o","o","d">>
energy == <<"e","n","e","r","g","y">>
total == <<"t","o","t","a","l">>

----------------------------------------------------------------------------
(* Module globals as they are after import *)

InitFactors ==
    [transport |-> (car :> 17) @@ (bus :> 8) @@ (train :> 3) @@ (flight :> 24),
     food |-> (beef :> 2700) @@ (chicken :> 690) @@ (dairy :> 190)
              @@ (vegetables :> 40) @@ (rice :> 270),
     energy |-> (electricity :> 45) @@ (gas :> 18)]

DAILY_CARBON_GOAL_KG == 20

InitMilestones == (3 :> 50) @@ (7 :> 150)

InitLevels ==
    << <<0, "Seedling">>, <<500, "Sapling">>, <<1500, "Oak">>,
       <<3000, "Forest Guardian">>, <<5000, "Planet Hero">> >>

\* the three dicts of BADGE_DEFINITIONS live at heap addresses 1..3
InitBadgeDicts ==
    << [id |-> "green_traveler", name |-> "Green Traveler",
        description |-> "Transport footprint below 5kg.", transport_max |-> Kg(5)],
       [id |-> "eco_warrior", name |-> "Eco Warrior",
        description |-> "Maintain a 7-day activity streak.", min_streak |-> 7],
       [id |-> "low_utility", name |-> "Energy Saver",
        description |-> "Reduce daily energy use below 10kWh.", energy_max |-> Kwh(10)] >>

InitBadgeRefs == <<1, 2, 3>>

----------------------------------------------------------------------------
(* carbon_engine.py *)

\* round(x, ndigits) for ndigits <= 5; the result stays in 1/Scale units
Pow10(n) == IF n = 0 THEN 1 ELSE IF n = 1 THEN 10 ELSE IF n = 2 THEN 100
            ELSE IF n = 3 THEN 1000 ELSE IF n = 4 THEN 10000 ELSE 100000

Round(x, ndigits) ==
    LET unit == Scale \div Pow10(ndigits)
        q == x \div unit
        r == x % unit
    IN  IF 2 * r < unit THEN q * unit
        ELSE IF 2 * r > unit THEN (q + 1) * unit
        ELSE CASE fpTie = "even" -> (IF q % 2 = 0 THEN q ELSE q + 1) * unit
               [] fpTie = "above" -> (q + 1) * unit
               [] fpTie = "below" -> q * unit

\* sum(...) over a list, left to right
RECURSIVE Sum(_)
Sum(s) == IF s = <<>> THEN 0 ELSE Sum(SubSeq(s, 1, Len(s) - 1)) + s[Len(s)]

\* variant: the lookup without lower()
calculate_transport_emissions_CaseSensitive(mode, distance_km, factors) ==
    LET fs == IF factors = "None" THEN DEFAULT_EMISSION_FACTORS.transport ELSE factors
        factor == Get(fs, mode, 0)
    IN  distance_km * factor

calculate_transport_emissions(mode, distance_km, factors) ==
    LET fs == IF factors = "None" THEN DEFAULT_EMISSION_FACTORS.transport ELSE factors
        factor == Get(fs, Lower(mode), 0)
    IN  distance_km * factor

calculate_food_emissions(food_type, quantity_kg, factors) ==
    LET fs == IF factors = "None" THEN DEFAULT_EMISSION_FACTORS.food ELSE factors
        factor == Get(fs, Lower(food_type), 0)
    IN  quantity_kg * factor

calculate_energy_emissions(energy_type, kwh, factors) ==
    LET fs == IF factors = "None" THEN DEFAULT_EMISSION_FACTORS.energy ELSE factors
        factor == Get(fs, Lower(energy_type), 0)
    IN  kwh * factor

\* entries are [type, qty] records: {'mode'/'type': str, 'distance'/'quantity'/'kwh': float}
\* variant: the energy total left out of the total
calculate_total_footprint_NoEnergy(transport_entries, food_entries, energy_entries) ==
    LET transport_total ==
            Sum([i \in 1..Len(transport_entries) |->
                   calculate_transport_emissions(transport_entries[i].type,
                                                 transport_entries[i].qty, "None")])
        food_total ==
            Sum([i \in 1..Len(food_entries) |->
                   calculate_food_emissions(food_entries[i].type, food_entries[i].qty, "None")])
        energy_total ==
            Sum([i \in 1..Len(energy_entries) |->
                   calculate_energy_emissions(energy_entries[i].type,
                                              energy_entries[i].qty, "None")])
        total_ == transport_total + food_total
    IN  [total_kg_co2e |-> Round(total_, 4),
         breakdown |-> [transport |-> Round(transport_total, 4),
                        food |-> Round(food_total, 4),
                        energy |-> Round(energy_total, 4)]]

calculate_total_footprint(transport_entries, food_entries, energy_entries) ==
    LET transport_total ==
            Sum([i \in 1..Len(transport_entries) |->
                   calculate_transport_emissions(transport_entries[i].type,
                                                 transport_entries[i].qty, "None")])
        food_total ==
            Sum([i \in 1..Len(food_entries) |->
                   calculate_food_emissions(food_entries[i].type, food_entries[i].qty, "None")])
        energy_total ==
            Sum([i \in 1..Len(energy_entries) |->
                   calculate_energy_emissions(energy_entries[i].type,
                                              energy_entries[i].qty, "None")])
        total_ == transport_total + food_total + energy_total
    IN  [total_kg_co2e |-> Round(total_, 4),
         breakdown |-> [transport |-> Round(transport_total, 4),
                        food |-> Round(food_total, 4),
                        energy |-> Round(energy_total, 4)]]

----------------------------------------------------------------------------
(* gamification.py *)

Min(a, b) == IF b < a THEN b ELSE a
Max(a, b) == IF b > a THEN b ELSE a

\* int(x): truncation toward zero of a value in 1/Scale units
ToInt(x) == IF x >= 0 THEN x \div Scale ELSE -((-x) \div Scale)

\* variant: no clamping
calculate_daily_score_Unclamped(total_carbon_kg) ==
    LET raw_score == Kg(100) - (total_carbon_kg * (100 \div DAILY_CARBON_GOAL_KG))
    IN  ToInt(raw_score)

calculate_daily_score(total_carbon_kg) ==
    LET raw_score == Kg(100) - (total_carbon_kg * (100 \div DAILY_CARBON_GOAL_KG))
    IN  ToInt(Max(0, Min(Kg(100), raw_score)))

\* variant: the bonus of the highest milestone reached
calculate_weekly_streak_Threshold(active_days_count) ==
    LET reached == {m \in DOMAIN STREAK_BONUS_MILESTONES : m <= active_days_count}
        bonus == IF reached = {} THEN 0
                 ELSE STREAK_BONUS_MILESTONES[CHOOSE m \in reached : \A k \in reached : k <= m]
        status == IF active_days_count >= 7
                  THEN <<"Master Streak: ", active_days_count, " days!">>
                  ELSE IF active_days_count >= 3
                  THEN <<"On Fire: ", active_days_count, " days!">>
                  ELSE <<"Keep it up: ", active_days_count, " days">>
    IN  <<status, bonus>>

calculate_weekly_streak(active_days_count) ==
    LET bonus == Get(STREAK_BONUS_MILESTONES, active_days_count, 0)
        status == IF active_days_count >= 7
                  THEN <<"Master Streak: ", active_days_count, " days!">>
                  ELSE IF active_days_count >= 3
                  THEN <<"On Fire: ", active_days_count, " days!">>
                  ELSE <<"Keep it up: ", active_days_count, " days">>
    IN  <<status, bonus>>

\* the indices of BADGE_DEFINITIONS whose badge is earned, in list order
RECURSIVE EarnedIndices(_, _, _, _)
EarnedIndices(n, streak_days, transport_kg, energy_kwh) ==
    IF n = 0 THEN <<>>
    ELSE LET badge == heap[BADGE_DEFINITIONS[n]]
             fail1 == "transport_max" \in DOMAIN badge /\ transport_kg > badge.transport_max
             fail2 == "min_streak" \in DOMAIN badge /\ streak_days < badge.min_streak
             fail3 == "energy_max" \in DOMAIN badge /\ energy_kwh > badge.energy_max
             is_earned == ~fail1 /\ ~fail2 /\ ~fail3
             before == EarnedIndices(n - 1, streak_days, transport_kg, energy_kwh)
         IN  IF is_earned THEN Append(before, n) ELSE before

FirstFree == 4
HeapSize == 6

\* variant: the total footprint compared with transport_max
get_badges_TotalAsTransport(total_carbon_kg, streak_days, transport_kg, energy_kwh) ==
    LET idx == EarnedIndices(Len(BADGE_DEFINITIONS), streak_days, total_carbon_kg, energy_kwh)
        new(i) == LET badge == heap[BADGE_DEFINITIONS[idx[i]]]
                  IN  [id |-> badge.id, name |-> badge.name, description |-> badge.description]
        refs == [i \in 1..Len(idx) |-> FirstFree + i - 1]
    IN  [refs |-> refs,
         heap |-> [a \in DOMAIN heap |->
                     IF a < FirstFree THEN heap[a]
                     ELSE IF a - FirstFree + 1 <= Len(idx) THEN new(a - FirstFree + 1)
                     ELSE "free"]]

\* variant: earned.append(badge), the catalog dicts themselves are returned
get_badges_Aliased(total_carbon_kg, streak_days, transport_kg, energy_kwh) ==
    LET idx == EarnedIndices(Len(BADGE_DEFINITIONS), streak_days, transport_kg, energy_kwh)
    IN  [refs |-> [i \in 1..Len(idx) |-> BADGE_DEFINITIONS[idx[i]]],
         heap |-> heap]

\* returns the earned list: each element is a new dict (at a fresh address)
\* holding the id, name and description of the badge
get_badges(total_carbon_kg, streak_days, transport_kg, energy_kwh) ==
    LET idx == EarnedIndices(Len(BADGE_DEFINITIONS), streak_days, transport_kg, energy_kwh)
        new(i) == LET badge == heap[BADGE_DEFINITIONS[idx[i]]]
                  IN  [id |-> badge.id, name |-> badge.name, description |-> badge.description]
        refs == [i \in 1..Len(idx) |-> FirstFree + i - 1]
    IN  [refs |-> refs,
         heap |-> [a \in DOMAIN heap |->
                     IF a < FirstFree THEN heap[a]
                     ELSE IF a - FirstFree + 1 <= Len(idx) THEN new(a - FirstFree + 1)
                     ELSE "free"]]

\* the list a reference list denotes
Deref(h, refs) == [i \in 1..Len(refs) |-> h[refs[i]]]

RECURSIVE LevelScan(_, _, _)
\* the for loop of get_progress_level from index i on, acc = <<current_level_name, level_num>>
LevelScan(i, total_points, acc) ==
    IF i > Len(LEVELS) THEN acc
    ELSE IF total_points >= LEVELS[i][1]
         THEN LevelScan(i + 1, total_points, <<LEVELS[i][2], i>>)
         ELSE acc

\* variant: level_num = i
get_progress_level_ZeroBased(total_points) ==
    LET r == LevelScan(1, total_points, <<LEVELS[1][2], 1>>)
    IN  [level_name |-> r[1],
         level_number |-> IF total_points >= LEVELS[1][1] THEN r[2] - 1 ELSE 1,
         total_points |-> total_points]

get_progress_level(total_points) ==
    LET r == LevelScan(1, total_points, <<LEVELS[1][2], 1>>)
    IN  [level_name |-> r[1], level_number |-> r[2], total_points |-> total_points]

----------------------------------------------------------------------------
(* recommendation_engine.py *)

\* a dict with float values is a list of <<key, value>> pairs in insertion order
DictGet(d, k, default) ==
    IF \E i \in 1..Len(d) : d[i][1] = k
    THEN d[CHOOSE i \in 1..Len(d) : d[i][1] = k][2]
    ELSE default

\* max(categories, key=categories.get): the first key, in iteration order,
\* whose value no other value exceeds
RECURSIVE MaxKeyFrom(_, _, _)
MaxKeyFrom(d, i, best) ==
    IF i > Len(d) THEN d[best][1]
    ELSE IF d[i][2] > d[best][2] THEN MaxKeyFrom(d, i + 1, i)
         ELSE MaxKeyFrom(d, i + 1, best)

\* format(x, ".2f")
Fmt2(x) == Round(x, 2)

\* the prompt is the record of the values interpolated into the template
build_recommendation_prompt(carbon_breakdown, activity_summary) ==
    LET categories == SelectSeq(carbon_breakdown, LAMBDA kv : kv[1] # total)
        highest_category == IF categories # <<>> THEN MaxKeyFrom(categories, 2, 1)
                            ELSE <<"N","/","A">>
        highest_value == DictGet(categories, highest_category, 0)
    IN  [total |-> Fmt2(DictGet(carbon_breakdown, total, 0)),
         transport |-> Fmt2(DictGet(carbon_breakdown, transport, 0)),
         food |-> Fmt2(DictGet(carbon_breakdown, food, 0)),
         energy |-> Fmt2(DictGet(carbon_breakdown, energy, 0)),
         activity_summary |-> activity_summary,
         highest_category |-> Capitalize(highest_category),
         highest_value |-> Fmt2(highest_value)]

----------------------------------------------------------------------------
(* demo_api.py *)

\* variant: the prompt's total is the sum of the rounded category emissions
run_integrated_demo_SumOfRounded(r) ==
    LET transport_emission == calculate_transport_emissions(r.transport_mode, r.distance, "None")
        food_emission == calculate_food_emissions(r.food_type, r.food_quantity, "None")
        energy_emission == calculate_energy_emissions(electricity, r.energy_kwh, "None")
        total_emission == transport_emission + food_emission + energy_emission
        breakdown == << <<transport, Round(transport_emission, 2)>>,
                        <<food, Round(food_emission, 2)>>,
                        <<energy, Round(energy_emission, 2)>>,
                        <<total, Round(transport_emission, 2) + Round(food_emission, 2)
                                 + Round(energy_emission, 2)>> >>
        daily_score == calculate_daily_score(total_emission)
        b == get_badges(total_emission, 1, transport_emission, r.energy_kwh)
        badges == Deref(b.heap, b.refs)
        habit_summary == <<r.distance, r.transport_mode, r.food_quantity, r.food_type,
                           r.energy_kwh>>
        recommendation_prompt == build_recommendation_prompt(breakdown, habit_summary)
    IN  [transport_emission |-> Round(transport_emission, 4),
         food_emission |-> Round(food_emission, 4),
         energy_emission |-> Round(energy_emission, 4),
         total_emission |-> Round(total_emission, 4),
         daily_score |-> daily_score,
         badges |-> badges,
         recommendation_prompt |-> recommendation_prompt]

\* variant: the badges are evaluated on the rounded transport emission
run_integrated_demo_RoundedBadges(r) ==
    LET transport_emission == calculate_transport_emissions(r.transport_mode, r.distance, "None")
        food_emission == calculate_food_emissions(r.food_type, r.food_quantity, "None")
        energy_emission == calculate_energy_emissions(electricity, r.energy_kwh, "None")
        total_emission == transport_emission + food_emission + energy_emission
        breakdown == << <<transport, Round(transport_emission, 2)>>,
                        <<food, Round(food_emission, 2)>>,
                        <<energy, Round(energy_emission, 2)>>,
                        <<total, Round(total_emission, 2)>> >>
        daily_score == calculate_daily_score(total_emission)
        b == get_badges(total_emission, 1, Round(transport_emission, 2), r.energy_kwh)
        badges == Deref(b.heap, b.refs)
        habit_summary == <<r.distance, r.transport_mode, r.food_quantity, r.food_type,
                           r.energy_kwh>>
        recommendation_prompt == build_recommendation_prompt(breakdown, habit_summary)
    IN  [transport_emission |-> Round(transport_emission, 4),
         food_emission |-> Round(food_emission, 4),
         energy_emission |-> Round(energy_emission, 4),
         total_emission |-> Round(total_emission, 4),
         daily_score |-> daily_score,
         badges |-> badges,
         recommendation_prompt |-> recommendation_prompt]

run_integrated_demo(r) ==
    LET transport_emission == calculate_transport_emissions(r.transport_mode, r.distance, "None")
        food_emission == calculate_food_emissions(r.food_type, r.food_quantity, "None")
        energy_emission == calculate_energy_emissions(electricity, r.energy_kwh, "None")
        total_emission == transport_emission + food_emission + energy_emission
        breakdown == << <<transport, Round(transport_emission, 2)>>,
                        <<food, Round(food_emission, 2)>>,
                        <<energy, Round(energy_emission, 2)>>,
                        <<total, Round(total_emission, 2)>> >>
        daily_score == calculate_daily_score(total_emission)
        b == get_badges(total_emission, 1, transport_emission, r.energy_kwh)
        badges == Deref(b.heap, b.refs)
        habit_summary == <<r.distance, r.transport_mode, r.food_quantity, r.food_type,
                           r.energy_kwh>>
        recommendation_prompt == build_recommendation_prompt(breakdown, habit_summary)
    IN  [transport_emission |-> Round(transport_emission, 4),
         food_emission |-> Round(food_emission, 4),
         energy_emission |-> Round(energy_emission, 4),
         total_emission |-> Round(total_emission, 4),
         daily_score |-> daily_score,
         badges |-> badges,
         recommendation_prompt |-> recommendation_prompt]

----------------------------------------------------------------------------
(* Inputs *)

MaxFine == 3         \* single-entry quantities 0 .. MaxFine thousandths, plus the anchors below
MaxEntries == 2      \* longest entry list passed to calculate_total_footprint
MaxDays == 10        \* largest active-days count
MaxKg == 21          \* largest whole number of kg passed to calculate_daily_score

bike == <<"b","i","k","e">>
tofu == <<"t","o","f","u">>
coal == <<"c","o","a","l">>

TransportTypes == {car, bus, train, flight, <<"C","a","r">>, bike}
FoodTypes == {beef, chicken, dairy, vegetables, rice, <<"B","E","E","F">>, tofu}
EnergyTypes == {electricity, gas, <<"G","a","s">>, coal}

Quantities == (0..MaxFine) \cup {100, Kwh(1), Kwh(10), 62500}

SeqsUpTo(S, n) == UNION {[1..k -> S] : k \in 0..n}

\* the entries of those lists: one thousandth of a km / kg / kWh each
Entries(types) == [type : types, qty : {1}]

ScoreInputs == {Kg(k) + d : k \in (-1)..MaxKg, d \in {-1, 0, 1}}

DaysInputs == (-1)..MaxDays

BadgeInputs ==
    [total_carbon_kg : {0, Kg(10)}, streak_days : {1, 6, 7, 8},
     transport_kg : {Kg(2), Kg(5), Kg(5) + 1}, energy_kwh : {Kwh(5), Kwh(10), Kwh(10) + 1}]

PointsInputs == {InitLevels[i][1] + d : i \in 1..Len(InitLevels), d \in {-1, 0, 1}} \cup {2000}

Perms(S) == {f \in [1..Cardinality(S) -> S] : \A i, j \in DOMAIN f : f[i] = f[j] => i = j}

KeyOrders == Perms({transport, food, energy, total})

BreakdownInputs ==
    {[i \in 1..4 |-> <<o[i], v[o[i]]>>] :
        o \in KeyOrders,
        v \in {w \in [{transport, food, energy, total} -> {Kg(5), Kg(12), Kg(100)}] :
                   w[total] = Kg(100) /\ \A k \in {transport, food, energy} : w[k] # Kg(100)}}
    \cup {<< <<transport, 4550000>>, <<food, 1220000>>, <<energy, 3000000>>,
             <<total, 8770000>> >>}

DemoInputs ==
    [transport_mode : {car, bus, bike}, distance : {20, 29412, 62500, 62501},
     food_type : {rice, tofu}, food_quantity : {1},
     energy_kwh : {10, Kwh(10), Kwh(10) + 1}]

----------------------------------------------------------------------------
(* State machine *)

NoCall == [op |-> "none"]
NoResp == [value |-> <<>>, refs |-> <<>>]

Init ==
    /\ pc = "idle"
    /\ op = "none"
    /\ req = <<>>
    /\ resp = NoResp
    /\ DEFAULT_EMISSION_FACTORS = InitFactors
    /\ STREAK_BONUS_MILESTONES = InitMilestones
    /\ LEVELS = InitLevels
    /\ BADGE_DEFINITIONS = InitBadgeRefs
    /\ heap = [a \in 1..HeapSize |-> IF a < FirstFree THEN InitBadgeDicts[a] ELSE "free"]
    /\ first = NoCall
    /\ tampered = FALSE
    /\ fpTie \in {"even", "above", "below"}

\* a call that returns a value holding no reference to a mutable object
Return(o, r, v) ==
    /\ pc = "idle"
    /\ pc' = "returned"
    /\ op' = o
    /\ req' = r
    /\ resp' = [value |-> v, refs |-> <<>>]
    /\ UNCHANGED <<tables, heap, first, tampered, fpTie>>

\* POST /transport
TransportEmissions ==
    \E m \in TransportTypes, d \in Quantities :
        LET result == calculate_transport_emissions(m, d, "None")
        IN  Return("transport", [type |-> m, qty |-> d],
                   [result |-> result, carbon_footprint_kg |-> Round(result, 4)])

\* POST /food
FoodEmissions ==
    \E t \in FoodTypes, q \in Quantities :
        LET result == calculate_food_emissions(t, q, "None")
        IN  Return("food", [type |-> t, qty |-> q],
                   [result |-> result, carbon_footprint_kg |-> Round(result, 4)])

\* POST /energy
EnergyEmissions ==
    \E t \in EnergyTypes, k \in Quantities :
        LET result == calculate_energy_emissions(t, k, "None")
        IN  Return("energy", [type |-> t, qty |-> k],
                   [result |-> result, carbon_footprint_kg |-> Round(result, 4)])

\* POST /calculate-total
TotalCalculation ==
    \E t \in SeqsUpTo(Entries({train, car}), MaxEntries),
       f \in SeqsUpTo(Entries({rice}), MaxEntries),
       e \in SeqsUpTo(Entries({gas}), MaxEntries) :
        Return("total", [transport |-> t, food |-> f, energy |-> e],
               calculate_total_footprint(t, f, e))

DailyScore ==
    \E t \in ScoreInputs :
        Return("score", [total_carbon_kg |-> t], calculate_daily_score(t))

WeeklyStreak ==
    \E n \in DaysInputs :
        Return("streak", [active_days_count |-> n], calculate_weekly_streak(n))

GetBadges ==
    \E r \in BadgeInputs :
        LET b == get_badges(r.total_carbon_kg, r.streak_days, r.transport_kg, r.energy_kwh)
        IN  /\ pc = "idle"
            /\ pc' = "returned"
            /\ op' = "badges"
            /\ req' = r
            /\ resp' = [value |-> Deref(b.heap, b.refs), refs |-> b.refs]
            /\ heap' = b.heap
            /\ UNCHANGED <<tables, first, tampered, fpTie>>

GetProgressLevel ==
    \E p \in PointsInputs :
        Return("level", [total_points |-> p], get_progress_level(p))

BuildRecommendationPrompt ==
    \E b \in BreakdownInputs :
        Return("prompt", [carbon_breakdown |-> b],
               build_recommendation_prompt(b, "summary"))

\* POST /api/demo-run
DemoRun ==
    \E r \in DemoInputs :
        Return("demo", r, run_integrated_demo(r))

\* the caller rewrites a field of a dict it was handed
Tamper ==
    /\ pc = "returned"
    /\ \E i \in 1..Len(resp.refs) :
        /\ heap[resp.refs[i]].name # "Tampered"
        /\ heap' = [heap EXCEPT ![resp.refs[i]].name = "Tampered"]
    /\ tampered' = TRUE
    /\ UNCHANGED <<pc, op, req, resp, tables, first, fpTie>>

\* the calls an observer keeps for comparison with later ones
Probe ==
    CASE op \in {"transport", "food", "energy"} ->
            req.qty = 1 /\ req.type \in {car, <<"C","a","r">>, bike, beef, gas}
      [] op = "total" -> Len(req.transport) = 2 /\ Len(req.food) <= 1 /\ Len(req.energy) = 1
      [] op = "score" -> req.total_carbon_kg \in {0, Kg(10)}
      [] op = "streak" -> req.active_days_count \in {3, 7, 8}
      [] op = "badges" -> /\ req.total_carbon_kg = 0 /\ req.energy_kwh = Kwh(5)
                          /\ req.transport_kg = Kg(5)
      [] op = "level" -> req.total_points \in {-1, 0, 500, 1499, 2000, 5000}
      [] op = "prompt" -> /\ req.carbon_breakdown[1][1] = transport
                          /\ req.carbon_breakdown[2][1] = food
                          /\ req.carbon_breakdown[3][1] = energy
                          /\ req.carbon_breakdown[1][2] = req.carbon_breakdown[2][2]
                          /\ req.carbon_breakdown[2][2] = req.carbon_breakdown[3][2]
      [] op = "demo" -> /\ req.food_type = rice /\ req.transport_mode = car
                        /\ req.distance \in {20, 62501}
                        /\ req.energy_kwh = 10

Remember ==
    /\ pc = "returned"
    /\ first = NoCall
    /\ Probe
    /\ first' = [op |-> op, req |-> req, value |-> resp.value]
    /\ UNCHANGED <<pc, op, req, resp, tables, heap, tampered, fpTie>>

\* the response is delivered and dropped; the dicts it held are garbage
Finish ==
    /\ pc = "returned"
    /\ pc' = "idle"
    /\ op' = "none"
    /\ req' = <<>>
    /\ resp' = NoResp
    /\ heap' = [a \in DOMAIN heap |-> IF a < FirstFree THEN heap[a] ELSE "free"]
    /\ UNCHANGED <<tables, first, tampered, fpTie>>

Next ==
    \/ TransportEmissions
    \/ FoodEmissions
    \/ EnergyEmissions
    \/ TotalCalculation
    \/ DailyScore
    \/ WeeklyStreak
    \/ GetBadges
    \/ GetProgressLevel
    \/ BuildRecommendationPrompt
    \/ DemoRun
    \/ Tamper
    \/ Remember
    \/ Finish

Spec == Init /\ [][Next]_vars

----------------------------------------------------------------------------
(* Properties *)

\* the documented default factors, in hundredths of a kg CO2e per unit
DocTransport == (car :> 17) @@ (bus :> 8) @@ (train :> 3) @@ (flight :> 24)
DocFood == (beef :> 2700) @@ (chicken :> 690) @@ (dairy :> 190) @@ (vegetables :> 40)
           @@ (rice :> 270)
DocEnergy == (electricity :> 45) @@ (gas :> 18)

DocFactor(table, type) == IF Lower(type) \in DOMAIN table THEN table[Lower(type)] ELSE 0

RECURSIVE DocEmissions(_, _)
DocEmissions(table, entries) ==
    IF entries = <<>> THEN 0
    ELSE entries[1].qty * DocFactor(table, entries[1].type)
         + DocEmissions(table, Tail(entries))

Abs(x) == IF x < 0 THEN -x ELSE x

\* C1: each single-entry calculator, called without a factor override, returns
\* the quantity times the documented default factor of the lower-cased activity
\* type, and 0 when the lower-cased type is not in that category's table.
C1_DefaultFactors ==
    /\ op = "transport" => resp.value.result = req.qty * DocFactor(DocTransport, req.type)
    /\ op = "food" => resp.value.result = req.qty * DocFactor(DocFood, req.type)
    /\ op = "energy" => resp.value.result = req.qty * DocFactor(DocEnergy, req.type)

C1_Witness ==
    /\ op = "transport"
    /\ req.type = <<"C","a","r">>
    /\ req.qty = 3
    /\ resp.value.result = 51

\* C2 as stated: total_kg_co2e equals the sum of the three rounded breakdown
\* values, compared at 4 decimal places.
C2_TotalIsSumOfBreakdown ==
    op = "total" =>
        resp.value.total_kg_co2e = resp.value.breakdown.transport
                                   + resp.value.breakdown.food
                                   + resp.value.breakdown.energy

\* C2 as amended: total_kg_co2e is the unrounded sum of the three category
\* totals rounded to 4 decimals; it differs from the sum of the three rounded
\* breakdown values by at most 0.0002.
C2_TotalIsRoundedSum ==
    op = "total" =>
        LET exact == DocEmissions(DocTransport, req.transport)
                     + DocEmissions(DocFood, req.food)
                     + DocEmissions(DocEnergy, req.energy)
            shown == resp.value.breakdown.transport + resp.value.breakdown.food
                     + resp.value.breakdown.energy
        IN  /\ resp.value.total_kg_co2e = Round(exact, 4)
            /\ Abs(resp.value.total_kg_co2e - shown) <= 2 * (Scale \div Pow10(4))

C2_Witness ==
    /\ op = "total"
    /\ Len(req.energy) > 0
    /\ resp.value.total_kg_co2e # resp.value.breakdown.transport + resp.value.breakdown.food
                                  + resp.value.breakdown.energy

\* C3: calculate_daily_score returns an integer in 0..100, equal to
\* 100 - total*5 clamped to [0,100] and truncated toward zero: 100 for a total
\* of 0 or less, 50 for 10 kg, 0 for 20 kg or more.
C3_DailyScore ==
    op = "score" =>
        LET t == req.total_carbon_kg
            v == resp.value
        IN  /\ v \in 0..100
            /\ t <= 0 => v = 100
            /\ t = Kg(10) => v = 50
            /\ t >= Kg(20) => v = 0
            /\ (t > 0 /\ t < Kg(20)) =>
                   (v * Scale <= Kg(100) - 5 * t /\ Kg(100) - 5 * t < (v + 1) * Scale)

C3_Witness ==
    /\ op = "score"
    /\ req.total_carbon_kg = Kg(20) + 1
    /\ resp.value = 0

\* the catalog badges, in catalog order, that the documented thresholds award
DocBadges(streak_days, transport_kg, energy_kwh) ==
    SelectSeq(<<"Green Traveler", "Eco Warrior", "Energy Saver">>,
              LAMBDA n : \/ n = "Green Traveler" /\ transport_kg <= Kg(5)
                         \/ n = "Eco Warrior" /\ streak_days >= 7
                         \/ n = "Energy Saver" /\ energy_kwh <= Kwh(10))

Names(badges) == [i \in 1..Len(badges) |-> badges[i].name]

\* C4: get_badges returns exactly the catalog badges whose thresholds are met,
\* in catalog order: Green Traveler iff transportKg <= 5.0, Eco Warrior iff
\* streakDays >= 7, Energy Saver iff energyKwh <= 10.0, whatever totalCarbonKg is.
C4_Badges ==
    op = "badges" =>
        /\ Names(resp.value) = DocBadges(req.streak_days, req.transport_kg, req.energy_kwh)
        /\ \A i \in 1..Len(resp.value) :
               DOMAIN resp.value[i] = {"id", "name", "description"}

C4_Witness ==
    /\ op = "badges"
    /\ req.total_carbon_kg = Kg(10)
    /\ req.streak_days = 6
    /\ req.transport_kg = Kg(5)
    /\ req.energy_kwh = Kwh(10) + 1
    /\ Names(resp.value) = <<"Green Traveler">>

\* C5: calculate_weekly_streak returns bonus 50 iff n = 3, 150 iff n = 7 and 0
\* otherwise; the status is the Master Streak wording for n >= 7, On Fire for
\* 3 <= n < 7 and Keep it up for n < 3; a non-zero bonus never comes with the
\* Keep it up status.
C5_WeeklyStreak ==
    op = "streak" =>
        LET n == req.active_days_count
            status == resp.value[1]
            bonus == resp.value[2]
        IN  /\ bonus = (IF n = 3 THEN 50 ELSE IF n = 7 THEN 150 ELSE 0)
            /\ status[2] = n
            /\ status[1] = (IF n >= 7 THEN "Master Streak: "
                            ELSE IF n >= 3 THEN "On Fire: " ELSE "Keep it up: ")
            /\ bonus # 0 => status[1] # "Keep it up: "

C5_Witness ==
    /\ op = "streak"
    /\ req.active_days_count = 8
    /\ resp.value[2] = 0
    /\ resp.value[1][1] = "Master Streak: "

DocLevelNames == <<"Seedling", "Sapling", "Oak", "Forest Guardian", "Planet Hero">>

DocLevelNumber(points) ==
    LET reached == Cardinality({t \in {0, 500, 1500, 3000, 5000} : t <= points})
    IN  IF reached = 0 THEN 1 ELSE reached

\* C6: get_progress_level returns the name and 1-based position of the highest
\* threshold <= totalPoints, Seedling and 1 below the first threshold; the level
\* number is in 1..5 and non-decreasing in totalPoints.
C6_ProgressLevel ==
    op = "level" =>
        /\ resp.value.level_number = DocLevelNumber(req.total_points)
        /\ resp.value.level_name = DocLevelNames[DocLevelNumber(req.total_points)]
        /\ resp.value.level_number \in 1..5
        /\ first.op = "level" =>
            /\ first.req.total_points <= req.total_points
                  => first.value.level_number <= resp.value.level_number
            /\ req.total_points <= first.req.total_points
                  => resp.value.level_number <= first.value.level_number

C6_Witness ==
    /\ op = "level"
    /\ first.op = "level"
    /\ first.req.total_points = 1499
    /\ first.value.level_number = 2
    /\ req.total_points = 2000
    /\ resp.value.level_name = "Oak"
    /\ resp.value.level_number = 3

\* C7: whatever the order of the keys of the breakdown, the category named as
\* highest contributor is the one of transport, food, energy with the largest
\* value, and on a tie the first of the tied ones in the order transport, food,
\* energy.
C7_HighestCategoryFixedOrder ==
    op = "prompt" =>
        LET b == req.carbon_breakdown
            t == DictGet(b, transport, 0)
            f == DictGet(b, food, 0)
            e == DictGet(b, energy, 0)
        IN  resp.value.highest_category =
                (IF t >= f /\ t >= e THEN <<"T","r","a","n","s","p","o","r","t">>
                 ELSE IF f >= e THEN <<"F","o","o","d">>
                 ELSE <<"E","n","e","r","g","y">>)

\* C8 as stated: the total displayed in the demo's prompt is the sum of the
\* prompt's displayed transport, food and energy values.
C8_PromptTotalIsSumOfDisplayed ==
    op = "demo" =>
        LET p == resp.value.recommendation_prompt
        IN  p.total = p.transport + p.food + p.energy

DocDemoEmissions(r) ==
    [transport |-> r.distance * DocFactor(DocTransport, r.transport_mode),
     food |-> r.food_quantity * DocFactor(DocFood, r.food_type),
     energy |-> r.energy_kwh * DocEnergy[electricity]]

\* C8 as amended: the total displayed in the demo's prompt is the sum of the
\* three unrounded category emissions, rounded to 2 decimals; it differs from
\* the sum of the displayed category values by at most 0.02.
C8_PromptTotalIsRoundedSum ==
    op = "demo" =>
        LET p == resp.value.recommendation_prompt
            d == DocDemoEmissions(req)
        IN  /\ p.total = Round(d.transport + d.food + d.energy, 2)
            /\ p.transport = Round(d.transport, 2)
            /\ p.food = Round(d.food, 2)
            /\ p.energy = Round(d.energy, 2)
            /\ Abs(p.total - (p.transport + p.food + p.energy)) <= 2 * (Scale \div Pow10(2))

C8_Witness ==
    /\ op = "demo"
    /\ req.transport_mode = car
    /\ req.distance = 20
    /\ resp.value.recommendation_prompt.total = 1000
    /\ resp.value.recommendation_prompt.transport = 0
    /\ resp.value.recommendation_prompt.food = 0
    /\ resp.value.recommendation_prompt.energy = 0

\* C9: whatever calls were made and whatever the callers did to the values
\* returned to them, the factor table, the milestone table, the level table and
\* the badge catalog are as at import, and a later call with the inputs of an
\* earlier one returns what the earlier one returned.
C9_TablesUnchangedAndRepeatable ==
    /\ DEFAULT_EMISSION_FACTORS = InitFactors
    /\ STREAK_BONUS_MILESTONES = InitMilestones
    /\ LEVELS = InitLevels
    /\ BADGE_DEFINITIONS = InitBadgeRefs
    /\ \A a \in 1..Len(InitBadgeDicts) : heap[a] = InitBadgeDicts[a]
    /\ (pc = "returned" /\ first.op = op) =>
           (first.req = req => first.value = resp.value)

C9_Witness ==
    /\ tampered
    /\ pc = "returned"
    /\ op = "badges"
    /\ first.op = "badges"
    /\ first.req = req
    /\ Len(resp.refs) = 2
    /\ \A i \in 1..Len(resp.refs) : heap[resp.refs[i]].name # "Tampered"
    /\ Names(first.value) = <<"Green Traveler", "Energy Saver">>

\* C10: the demo evaluates badges with a streak of 1, the unrounded transport
\* emission and the request's energy_kwh: never Eco Warrior, Green Traveler iff
\* distance times the mode's factor (0 for an unknown mode) is <= 5.0, Energy
\* Saver iff energy_kwh <= 10.0.
C10_DemoBadges ==
    op = "demo" =>
        LET names == Names(resp.value.badges)
            has(n) == \E i \in 1..Len(names) : names[i] = n
        IN  /\ ~has("Eco Warrior")
            /\ has("Green Traveler") <=> DocDemoEmissions(req).transport <= Kg(5)
            /\ has("Energy Saver") <=> req.energy_kwh <= Kwh(10)
            /\ names = DocBadges(1, DocDemoEmissions(req).transport, req.energy_kwh)

C10_Witness ==
    /\ op = "demo"
    /\ req.transport_mode = bus
    /\ req.distance = 62501
    /\ req.energy_kwh = Kwh(10)
    /\ resp.value.recommendation_prompt.transport = Kg(5)
    /\ Names(resp.value.badges) = <<"Energy Saver">>

====
